---- MODULE Spec2Model ----
(***************************************************************************)
(* Record-mode journaling of wazzup's QuickPanel (apps/desktop/src/App.tsx) *)
(* and the edit_operations store it writes to (packages/db/lib.ts, reached  *)
(* through the tRPC router).                                                *)
(*                                                                          *)
(* Strings are sequences of one-character strings.  The UI runs on one      *)
(* event loop: every handler is one step, except where the code awaits      *)
(* (invoke("toggle_record_mode")) or hands a callback to a mutation         *)
(* (createThought): those are split at the await.  The three edit-history   *)
(* mutations are fire-and-forget RPCs; the ones in flight are the bag       *)
(* `net`, and the server executes them one at a time in any order.          *)
(* Date.now() timestamps of the rows are not modelled.                      *)
(***************************************************************************)
EXTENDS Bags, FiniteSets, Integers, Sequences, TLC

\* ---- bounds ----
MaxLen == 2        \* longest text the user types into the text box
MaxDiffLen == 3    \* longest text handed to computeEditOperation on its own
MaxCalls == 4      \* asynchronous calls the panel starts over a run: Cmd+R
                   \* invokes, createThought and createEditOperation mutations
MaxFrames == 3     \* longest edit history loaded into the replay window
MaxThoughts == 4   \* thoughts inserted while the main window lists them
MaxLimit == 2      \* largest page size asked of getThoughtsPaginated
MaxInits == 2      \* calls of initializeTrpcClient in one webview
MaxRetries == 2    \* maxRetries of waitForServer
MaxTurns == 2      \* assistant turns in one call of chat
MaxBlocks == 2     \* content blocks streamed in one turn

RECURSIVE StringsOfLen(_, _)
StringsOfLen(alphabet, n) ==
    IF n = 0 THEN {<<>>}
    ELSE {Append(s, c) : s \in StringsOfLen(alphabet, n - 1), c \in alphabet}

\* every text the user can leave in the text box
Strings == UNION {StringsOfLen({"a"}, n) : n \in 0..MaxLen}

\* the texts of the typing scenario "hi", "hi!", "hi there!"
Hi == <<"h", "i">>
HiBang == <<"h", "i", "!">>
HiThereBang == <<"h", "i", " ", "t", "h", "e", "r", "e", "!">>

\* the texts computeEditOperation is tried on, on its own
DiffStrings ==
    UNION {StringsOfLen({"a", "b"}, n) : n \in 0..MaxDiffLen}
        \cup {Hi, HiBang, HiThereBang}

\* e.target.selectionStart after a change of the text box: the caret at the end
\* of the text (computeEditOperation does not read its cursor argument; DiffSpec
\* tries every value)
CaretPositions(newValue) == {Len(newValue)}

\* value of mount time Date.now() (App.tsx:188)
MountTimes == {9}

\* as ProvisionalId, without the sign
UnsignedId(now) == now

\* the session id made from the mount time: -Date.now()
ProvisionalId(now) == -now

\* the text `Error: ${error.message}` that createThought's onError puts in the box
ErrorText == <<"E">>

Min(a, b) == IF a < b THEN a ELSE b

Range(f) == {f[i] : i \in DOMAIN f}

\* String.prototype.slice(start, end) for 0 <= start, end <= length
Slice(s, start, end) == IF start < end THEN SubSeq(s, start + 1, end) ELSE <<>>

Whitespace == {" ", "\n", "\t"}

RECURSIVE TrimStart(_)
TrimStart(s) ==
    IF s # <<>> /\ Head(s) \in Whitespace THEN TrimStart(Tail(s)) ELSE s

RECURSIVE TrimEnd(_)
TrimEnd(s) ==
    IF s # <<>> /\ s[Len(s)] \in Whitespace
    THEN TrimEnd(SubSeq(s, 1, Len(s) - 1)) ELSE s

\* String.prototype.trim
Trim(s) == TrimEnd(TrimStart(s))

\* ---- Diff engine: computeEditOperation ----
Null == [type |-> "null"]

RECURSIVE PrefixLoopOffByOne(_, _, _)
\* as PrefixLoop, the loop stopping one character early
PrefixLoopOffByOne(prevText, newText, prefixLen) ==
    IF /\ prefixLen + 1 < Min(Len(prevText), Len(newText))
       /\ prevText[prefixLen + 1] = newText[prefixLen + 1]
    THEN PrefixLoopOffByOne(prevText, newText, prefixLen + 1)
    ELSE prefixLen

RECURSIVE PrefixLoop(_, _, _)
PrefixLoop(prevText, newText, prefixLen) ==
    IF /\ prefixLen < Min(Len(prevText), Len(newText))
       /\ prevText[prefixLen + 1] = newText[prefixLen + 1]
    THEN PrefixLoop(prevText, newText, prefixLen + 1)
    ELSE prefixLen

\* the longest common prefix
PrefixLen(prevText, newText) == PrefixLoop(prevText, newText, 0)

RECURSIVE SuffixLoop(_, _, _, _)
SuffixLoop(prevText, newText, prefixLen, suffixLen) ==
    IF /\ suffixLen < Min(Len(prevText), Len(newText)) - prefixLen
       /\ prevText[Len(prevText) - suffixLen] = newText[Len(newText) - suffixLen]
    THEN SuffixLoop(prevText, newText, prefixLen, suffixLen + 1)
    ELSE suffixLen

\* as SuffixLen, the suffix search not bounded by the prefix
SuffixLenUnbounded(prevText, newText, prefixLen) ==
    SuffixLoop(prevText, newText, 0, 0)

\* the longest common suffix of what the prefix leaves
SuffixLen(prevText, newText, prefixLen) ==
    SuffixLoop(prevText, newText, prefixLen, 0)

\* as ComputeEditOperation, reporting the cursor as the position
ComputeEditOperationAtCursor(prevText, newText, cursorPos) ==
    IF prevText = newText THEN Null
    ELSE
      LET prefixLen == PrefixLen(prevText, newText)
          suffixLen == SuffixLen(prevText, newText, prefixLen)
          deletedContent == Slice(prevText, prefixLen, Len(prevText) - suffixLen)
          insertedContent == Slice(newText, prefixLen, Len(newText) - suffixLen)
      IN  IF deletedContent # <<>> /\ insertedContent # <<>>
          THEN [type |-> "replace", position |-> cursorPos, content |-> insertedContent]
          ELSE IF insertedContent # <<>>
          THEN [type |-> "insert", position |-> cursorPos, content |-> insertedContent]
          ELSE IF deletedContent # <<>>
          THEN [type |-> "delete", position |-> cursorPos, content |-> deletedContent]
          ELSE Null

ComputeEditOperation(prevText, newText, cursorPos) ==
    IF prevText = newText THEN Null
    ELSE
      LET prefixLen == PrefixLen(prevText, newText)
          suffixLen == SuffixLen(prevText, newText, prefixLen)
          deletedContent == Slice(prevText, prefixLen, Len(prevText) - suffixLen)
          insertedContent == Slice(newText, prefixLen, Len(newText) - suffixLen)
      IN  IF deletedContent # <<>> /\ insertedContent # <<>>
          THEN [type |-> "replace", position |-> prefixLen, content |-> insertedContent]
          ELSE IF insertedContent # <<>>
          THEN [type |-> "insert", position |-> prefixLen, content |-> insertedContent]
          ELSE IF deletedContent # <<>>
          THEN [type |-> "delete", position |-> prefixLen, content |-> deletedContent]
          ELSE Null

\* ---- Frame reconstructor: one operation applied to a text ----
\* An operation carries operation_type, position, content, content_length.
ApplyOperation(content, op) ==
    LET position == Min(op.position, Len(content))
        before == Slice(content, 0, position)
    IN  CASE op.operation_type = "insert" ->
               before \o op.content \o Slice(content, position, Len(content))
          [] op.operation_type = "delete" ->
               before \o Slice(content, Min(position + op.content_length, Len(content)),
                               Len(content))
          [] op.operation_type = "replace" ->
               before \o op.content
                      \o Slice(content, Min(position + op.content_length, Len(content)),
                               Len(content))

RECURSIVE Replay(_, _)
\* the text after applying the operations in order to `content`
Replay(content, operations) ==
    IF operations = <<>> THEN content
    ELSE Replay(ApplyOperation(content, Head(operations)), Tail(operations))

RECURSIVE FramesFrom(_, _, _)
\* one frame per operation: the text and the cursor after applying it
FramesFrom(content, operations, i) ==
    IF operations = <<>> THEN <<>>
    ELSE LET op == Head(operations)
             newContent == ApplyOperation(content, op)
             newCursor == IF op.operation_type = "delete" THEN op.position
                          ELSE op.position + Len(op.content)
         IN  <<[sequence_index |-> i, content |-> newContent,
                cursorPosition |-> newCursor]>>
                \o FramesFrom(newContent, Tail(operations), i + 1)

\* generateFrames: from the empty text, the synthetic zero frame left out
GenerateFrames(operations) == FramesFrom(<<>>, operations, 0)

\* ---- Replay window: playbackReducer, frames and delays ----
\* playback speeds in units of 0.5x: the buttons and keys offer 0.5x, 1x, 2x, 4x
SpeedOptions == {1, 2, 4, 8}
NormalSpeed == 2
DoubleSpeed == 4

\* the actions the window dispatches to playbackReducer
Intents(frameCount) ==
    {[type |-> t] : t \in {"PLAY", "PAUSE", "TOGGLE", "RESTART", "NEXT_FRAME"}}
        \cup {[type |-> "SEEK", frameIndex |-> i] : i \in 0..(frameCount - 1)}
        \cup {[type |-> "CHANGE_SPEED", speed |-> v] : v \in SpeedOptions}

\* as PlaybackReducer, but SEEK keeps playing and CHANGE_SPEED rewinds
PlaybackReducerSeekKeepsPlaying(state, action) ==
    CASE action.type = "PLAY" -> [state EXCEPT !.isPlaying = TRUE]
      [] action.type = "PAUSE" -> [state EXCEPT !.isPlaying = FALSE]
      [] action.type = "TOGGLE" -> [state EXCEPT !.isPlaying = ~state.isPlaying]
      [] action.type = "SEEK" ->
           [state EXCEPT !.currentFrameIndex = action.frameIndex]
      [] action.type = "NEXT_FRAME" ->
           [state EXCEPT !.currentFrameIndex = state.currentFrameIndex + 1]
      [] action.type = "CHANGE_SPEED" ->
           [state EXCEPT !.speed = action.speed, !.currentFrameIndex = 0]
      [] action.type = "RESTART" ->
           [state EXCEPT !.currentFrameIndex = 0, !.isPlaying = FALSE]
      [] OTHER -> state

\* playbackReducer
PlaybackReducer(state, action) ==
    CASE action.type = "PLAY" -> [state EXCEPT !.isPlaying = TRUE]
      [] action.type = "PAUSE" -> [state EXCEPT !.isPlaying = FALSE]
      [] action.type = "TOGGLE" -> [state EXCEPT !.isPlaying = ~state.isPlaying]
      [] action.type = "SEEK" ->
           [state EXCEPT !.currentFrameIndex = action.frameIndex,
                         !.isPlaying = FALSE]
      [] action.type = "NEXT_FRAME" ->
           [state EXCEPT !.currentFrameIndex = state.currentFrameIndex + 1]
      [] action.type = "CHANGE_SPEED" -> [state EXCEPT !.speed = action.speed]
      [] action.type = "RESTART" ->
           [state EXCEPT !.currentFrameIndex = 0, !.isPlaying = FALSE]
      [] OTHER -> state

\* useReducer's initial state
InitialPlaybackState ==
    [isPlaying |-> FALSE, currentFrameIndex |-> 0, speed |-> NormalSpeed]

\* the structural error of the frame reconstructor: an empty log, or
\* sequence numbers that are not 1, 2, ..., N
StructuralError(operations) ==
    \/ operations = <<>>
    \/ \E i \in DOMAIN operations : operations[i].sequence_num # i

\* the frames generateFrames returns for a sound log, each with the time of
\* its operation
TimedFrames(operations) ==
    LET generated == GenerateFrames(operations)
    IN  [i \in DOMAIN generated |->
            [state |-> generated[i], timestamp_ms |-> operations[i].timestamp_ms]]

\* useMemo(frames): [] for a missing or empty log, generateFrames otherwise
Frames(operations) ==
    IF operations = <<>> THEN <<>> ELSE TimedFrames(operations)

\* longest pause replayed, in ms
MaxDelayMs == 4
\* delays are kept in quarters of a millisecond, exact for every speed offered
Quarters(ms) == 4 * ms
Clamp(x, lo, hi) == IF x < lo THEN lo ELSE IF x > hi THEN hi ELSE x

\* calculateFrameDelays: (timestamp_ms[i] - timestamp_ms[i-1]) / speed for each
\* transition, never negative and never above the longest pause
CalculateFrameDelays(frames, speed) ==
    [i \in 1..(Len(frames) - 1) |->
        Clamp((2 * Quarters(frames[i + 1].timestamp_ms - frames[i].timestamp_ms))
                  \div speed,
              0, Quarters(MaxDelayMs))]

\* as Delays, with the speed chosen left out of the computation
DelaysAtNormalSpeed(frames, speed) ==
    IF Len(frames) = 0 THEN <<>> ELSE CalculateFrameDelays(frames, NormalSpeed)

\* useMemo(delays)
Delays(frames, speed) ==
    IF Len(frames) = 0 THEN <<>> ELSE CalculateFrameDelays(frames, speed)

\* the clocks edit operations were journaled at
Timestamps == {0, 2, 12}

\* a row as getEditOperations returns it to the window
ReplayRow(sequence_num, timestamp_ms) ==
    [thought_id |-> 1, sequence_num |-> sequence_num, operation_type |-> "insert",
     position |-> 0, content |-> <<"a">>, content_length |-> 1,
     timestamp_ms |-> timestamp_ms]

\* the edit histories a thought can have: ordered by sequence_num, with or
\* without gaps and repeats
Logs ==
    {log \in UNION {[1..n -> {ReplayRow(q, t) : q \in 1..(MaxFrames + 1),
                                                t \in Timestamps}]
                       : n \in 0..MaxFrames} :
        \A i \in DOMAIN log : \A j \in DOMAIN log :
            i < j => log[i].sequence_num <= log[j].sequence_num}

\* ---- Operation log: the edit_operations table, a set of rows ----
\* A row has the columns id, thought_id, sequence_num, operation_type, position,
\* content, content_length, and two bookkeeping fields that are not columns:
\* `session`, the number of the recording session whose text change produced it,
\* and `ordinal`, its place among the text changes journaled in that session.

\* as CreateEditOperation, the store numbering the row itself: max existing + 1
CreateEditOperationNumbered(rows, id, m) ==
    LET existing == {r.sequence_num : r \in {q \in rows : q.thought_id = m.thought_id}}
        next == IF existing = {} THEN 1
                ELSE (CHOOSE n \in existing : \A k \in existing : k <= n) + 1
    IN  rows \cup {[id |-> id,
                    thought_id |-> m.thought_id,
                    sequence_num |-> next,
                    operation_type |-> m.operation_type,
                    position |-> m.position,
                    content |-> m.content,
                    content_length |-> Len(m.content),
                    session |-> m.session,
                    ordinal |-> m.ordinal]}

\* INSERT ... RETURNING: content_length is derived from content
CreateEditOperation(rows, id, m) ==
    rows \cup {[id |-> id,
                thought_id |-> m.thought_id,
                sequence_num |-> m.sequence_num,
                operation_type |-> m.operation_type,
                position |-> m.position,
                content |-> m.content,
                content_length |-> Len(m.content),
                session |-> m.session,
                ordinal |-> m.ordinal]}

\* ORDER BY sequence_num; rows with equal sequence_num come in rowid order
RowBefore(r, q) ==
    \/ r.sequence_num < q.sequence_num
    \/ r.sequence_num = q.sequence_num /\ r.id <= q.id

RECURSIVE SortRows(_)
SortRows(rows) ==
    IF rows = {} THEN <<>>
    ELSE LET first == CHOOSE r \in rows : \A q \in rows : RowBefore(r, q)
         IN  <<first>> \o SortRows(rows \ {first})

RECURSIVE RowsInRowidOrder(_)
RowsInRowidOrder(rows) ==
    IF rows = {} THEN <<>>
    ELSE LET first == CHOOSE r \in rows : \A q \in rows : r.id <= q.id
         IN  <<first>> \o RowsInRowidOrder(rows \ {first})

\* as GetEditOperations, without the ORDER BY: rows come as they were inserted
GetEditOperationsUnordered(rows, thought_id) ==
    RowsInRowidOrder({r \in rows : r.thought_id = thought_id})

\* SELECT ... WHERE thought_id = ? ORDER BY sequence_num
GetEditOperations(rows, thought_id) ==
    SortRows({r \in rows : r.thought_id = thought_id})

\* as UpdateEditOperationsThoughtId, without the WHERE clause
UpdateEveryThoughtId(rows, old_thought_id, new_thought_id) ==
    {[r EXCEPT !.thought_id = new_thought_id] : r \in rows}

\* as UpdateEditOperationsThoughtId, one row per call
UpdateOneThoughtId(rows, old_thought_id, new_thought_id) ==
    LET matching == {r \in rows : r.thought_id = old_thought_id}
    IN  {IF r \in matching /\ \A q \in matching : r.id <= q.id
         THEN [r EXCEPT !.thought_id = new_thought_id] ELSE r : r \in rows}

\* UPDATE edit_operations SET thought_id = new WHERE thought_id = old
UpdateEditOperationsThoughtId(rows, old_thought_id, new_thought_id) ==
    {IF r.thought_id = old_thought_id
     THEN [r EXCEPT !.thought_id = new_thought_id] ELSE r : r \in rows}

\* as DeleteEditOperations, without the WHERE clause
DeleteEveryEditOperation(rows, thought_id) == {}

\* DELETE FROM edit_operations WHERE thought_id = ?
DeleteEditOperations(rows, thought_id) ==
    {r \in rows : r.thought_id # thought_id}


\* ---- Thought list: getThoughtsPaginated ----
\* `cursor` and `search` left undefined
NoCursor == 0
NoSearch == "undefined"

\* what the thoughts are about, and the terms the list is searched for
ThoughtContents == {<<"a">>, <<"b">>}
SearchTerms == {NoSearch, "a"}

\* content LIKE %search%, or no search filter
Like(content, search) ==
    search = NoSearch \/ \E i \in DOMAIN content : content[i] = search

RECURSIVE NewestFirst(_)
\* ORDER BY id DESC
NewestFirst(rows) ==
    IF rows = {} THEN <<>>
    ELSE LET first == CHOOSE r \in rows : \A q \in rows : r.id >= q.id
         IN  <<first>> \o NewestFirst(rows \ {first})

\* LIMIT n
Limit(rows, n) == SubSeq(rows, 1, Min(n, Len(rows)))

\* as GetThoughtsPaginated, with the cursor's own row let through (id <= cursor)
GetThoughtsPaginatedInclusive(table, limit, cursor, search) ==
    LET selected == {t \in table : /\ cursor # NoCursor => t.id <= cursor
                                   /\ Like(t.content, search)}
        results == Limit(NewestFirst(selected), limit + 1)
        hasMore == Len(results) > limit
        items == IF hasMore THEN Limit(results, limit) ELSE results
    IN  [items |-> [i \in DOMAIN items |-> items[i].id],
         nextCursor |-> IF hasMore THEN items[Len(items)].id ELSE NoCursor]

\* getThoughtsPaginated: the ids of the page and its nextCursor
GetThoughtsPaginated(table, limit, cursor, search) ==
    LET selected == {t \in table : /\ cursor # NoCursor => t.id < cursor
                                   /\ Like(t.content, search)}
        results == Limit(NewestFirst(selected), limit + 1)
        hasMore == Len(results) > limit
        items == IF hasMore THEN Limit(results, limit) ELSE results
    IN  [items |-> [i \in DOMAIN items |-> items[i].id],
         nextCursor |-> IF hasMore THEN items[Len(items)].id ELSE NoCursor]

\* ---- tRPC client: api.ts ----
\* `null` of cachedPort and cachedClient; clients are numbered as created
NoPort == 0
NoClient == 0
\* what get_sidecar_port answers
SidecarPort == 1
Inits == 1..MaxInits

\* a call of initializeTrpcClient that has not been made yet
NotCalled == [pc |-> "idle", i |-> 0, requests |-> 0, answers |-> <<>>,
              wait |-> "none", client |-> NoClient]

\* getTrpcClient
GetTrpcClient(cached) == cached

\* ---- Chat assistant: chat() ----
\* a streamed content block: text; a block of another type; a tool_use whose
\* input JSON has a string `sql`; a tool_use without input JSON (input {});
\* a tool_use whose input JSON does not parse
BlockKinds == {"text", "other", "sql", "empty", "cut"}
ToolUseKinds == {"sql", "empty", "cut"}
StopReasons == {"tool_use", "end_turn", "max_tokens"}
Streams == UNION {[1..n -> BlockKinds] : n \in 0..MaxBlocks}

\* contentBlocks after the stream: text and tool_use blocks at their index,
\* holes elsewhere; tool ids are the API's, all different
ContentBlocks(kinds, used) ==
    [i \in DOMAIN kinds |->
        IF kinds[i] = "text" THEN [type |-> "text"]
        ELSE IF kinds[i] \in ToolUseKinds
             THEN [type |-> "tool_use", id |-> used + i, input |-> kinds[i]]
             ELSE [type |-> "hole"]]

\* JSON.parse(jsonStr) throws on one of the tool inputs
ParseThrows(kinds) == \E i \in DOMAIN kinds : kinds[i] = "cut"

\* contentBlocks.filter(Boolean)
IsBlock(block) == block.type # "hole"
FinalContent(contentBlocks) == SelectSeq(contentBlocks, IsBlock)

\* executeQuery(db, input.sql) throws: validateQuery calls sql.replace outside
\* the try, and input.sql is undefined
ExecuteQueryThrows(block) == block.input = "empty"

IsToolUse(block) == block.type = "tool_use"

\* toolResults: one tool_result for each tool_use block, in order
ToolResults(finalContent) ==
    LET uses == SelectSeq(finalContent, IsToolUse)
    IN  [i \in DOMAIN uses |-> [type |-> "tool_result", tool_use_id |-> uses[i].id]]

\* messages as index.ts hands them to chat: the user's line
FirstMessages == <<[role |-> "user", content |-> <<[type |-> "text"]>>, stop |-> "none"]>>

\* ---- State ----
VARIABLES
    input,               \* useState: text of the text box
    lastInputValueRef,   \* useRef: the text the next diff is taken against
    recordMode,          \* useState
    editCount,           \* useState
    confirmingDiscard,   \* useState
    currentSessionId,    \* useState(() => -Date.now()), no setter
    sequenceNum,         \* useState
    toggleCalls,         \* bag: Cmd+R handlers waiting at `await invoke(...)`
    thoughtCalls,        \* bag: createThought mutations in flight, with their callbacks
    net,                 \* bag: edit-history mutations in flight
    thoughts,            \* table thoughts
    editOperations,      \* table edit_operations
    nextEditOperationId, \* AUTOINCREMENT of edit_operations.id
    sessionIds,          \* history: the session id at each Idle -> Recording
    discardedSessions,   \* history: sessions whose deleteEditOperations was executed
    reassignedSessions,  \* history: [session, thought_id] of executed reassignments
    sessionOps,          \* history: text changes journaled since the last Idle -> Recording
    calls,               \* history: asynchronous calls started so far
    prevText,            \* computeEditOperation on its own: first argument,
    newText,             \*   second argument,
    computed,            \*   result
    query,               \* replay window: state of the getEditOperations query
    operations,          \* replay window: data of the query, <<>> while undefined
    playbackState,       \* replay window: useReducer(playbackReducer, ...)
    timeoutArmed,        \* replay window: the playback effect's timeout is pending
    strayTimeouts,       \* replay window: pending timeouts no cleanup will clear
    replayWindow,        \* replay window: "mounted", "crashed" or "closed"
    listQuery,           \* main window: limit and search of the list query
    pages,               \* main window: data.pages of useInfiniteQuery
    listedAtFirst,       \* history: the thoughts matching at the first fetch
    cachedPort,          \* api.ts: module variable
    cachedClient,        \* api.ts: module variable
    clientsCreated,      \* history: calls of trpc.createClient
    inits,               \* the calls of initializeTrpcClient, each with its position
    messages,            \* chat: the conversation; `stop` of a message is bookkeeping
    chatPc,              \* chat: "streaming", "returned" or "thrown"
    toolUsed             \* history: tool ids given out by the API

ui == <<input, lastInputValueRef, recordMode, editCount, confirmingDiscard,
        currentSessionId, sequenceNum>>
store == <<editOperations, nextEditOperationId>>
history == <<sessionIds, discardedSessions, reassignedSessions, sessionOps>>
counters == <<calls>>
diff == <<prevText, newText, computed>>
replay == <<query, operations, playbackState, timeoutArmed, strayTimeouts,
            replayWindow>>
paging == <<listQuery, pages, listedAtFirst>>
client == <<cachedPort, cachedClient, clientsCreated, inits>>
chat == <<messages, chatPc, toolUsed>>
others == <<paging, client, chat>>
vars == <<ui, toggleCalls, thoughtCalls, net, thoughts, store, history, counters,
          diff, replay, others>>

\* the recording session a handler runs in; 0 outside record mode
CurrentSession == IF recordMode THEN Len(sessionIds) ELSE 0

\* the main window before its first fetch; api.ts as loaded; chat as called
OthersInit ==
    /\ listQuery = [limit |-> 1, search |-> NoSearch]
    /\ pages = <<>>
    /\ listedAtFirst = {}
    /\ cachedPort = NoPort
    /\ cachedClient = NoClient
    /\ clientsCreated = 0
    /\ inits = [c \in Inits |-> NotCalled]
    /\ messages = FirstMessages
    /\ chatPc = "streaming"
    /\ toolUsed = 0

Init ==
    /\ input = <<>>
    /\ lastInputValueRef = <<>>
    /\ recordMode = FALSE
    /\ editCount = 0
    /\ confirmingDiscard = FALSE
    /\ currentSessionId \in {ProvisionalId(now) : now \in MountTimes}
    /\ sequenceNum = 0
    /\ toggleCalls = EmptyBag
    /\ thoughtCalls = EmptyBag
    /\ net = EmptyBag
    /\ thoughts = {}
    /\ editOperations = {}
    /\ nextEditOperationId = 1
    /\ sessionIds = <<>>
    /\ discardedSessions = {}
    /\ reassignedSessions = {}
    /\ sessionOps = 0
    /\ calls = 0
    /\ prevText = <<>>
    /\ newText = <<>>
    /\ computed = Null
    /\ query = "loading"
    /\ operations = <<>>
    /\ playbackState = InitialPlaybackState
    /\ timeoutArmed = FALSE
    /\ strayTimeouts = 0
    /\ replayWindow = "mounted"
    /\ OthersInit

Send(m) == net (+) SetToBag({m})
Receive(m) == net (-) SetToBag({m})

\* the state the handlers reset to when a session ends
ResetRecorder ==
    /\ editCount' = 0
    /\ sequenceNum' = 0
    /\ recordMode' = FALSE
    /\ confirmingDiscard' = FALSE
    /\ lastInputValueRef' = <<>>

\* the input object of the createEditOperation mutation
EditOperationInput(operation, newSeqNum) ==
    [kind |-> "createEditOperation",
     thought_id |-> currentSessionId,
     sequence_num |-> newSeqNum,
     operation_type |-> operation.type,
     position |-> operation.position,
     content |-> operation.content,
     session |-> CurrentSession,
     ordinal |-> sessionOps + 1]

\* ---- QuickPanel handlers ----
\* as HandleInputChange, without the test of recordMode
HandleInputChangeAlways(newValue, selectionStart) ==
    /\ newValue # input
    /\ LET prevValue == lastInputValueRef
           operation == ComputeEditOperation(prevValue, newValue, selectionStart)
       IN  /\ input' = newValue
           /\ IF operation # Null
              THEN /\ calls < MaxCalls
                   /\ sequenceNum' = sequenceNum + 1
                   /\ editCount' = sequenceNum + 1
                   /\ net' = Send(EditOperationInput(operation, sequenceNum + 1))
                   /\ calls' = calls + 1
                   /\ sessionOps' = sessionOps + 1
              ELSE UNCHANGED <<sequenceNum, editCount, net, calls, sessionOps>>
           /\ lastInputValueRef' = newValue
    /\ UNCHANGED <<recordMode, confirmingDiscard, currentSessionId, toggleCalls,
                   thoughtCalls, thoughts, store, sessionIds, discardedSessions,
                   reassignedSessions, diff, replay, others>>

\* onChange of the text box
HandleInputChange(newValue, selectionStart) ==
    /\ newValue # input
    /\ LET prevValue == lastInputValueRef
           operation == ComputeEditOperation(prevValue, newValue, selectionStart)
       IN  /\ input' = newValue
           /\ IF recordMode /\ operation # Null
              THEN /\ calls < MaxCalls
                   /\ sequenceNum' = sequenceNum + 1
                   /\ editCount' = sequenceNum + 1
                   /\ net' = Send(EditOperationInput(operation, sequenceNum + 1))
                   /\ calls' = calls + 1
                   /\ sessionOps' = sessionOps + 1
              ELSE UNCHANGED <<sequenceNum, editCount, net, calls, sessionOps>>
           /\ lastInputValueRef' = newValue
    /\ UNCHANGED <<recordMode, confirmingDiscard, currentSessionId, toggleCalls,
                   thoughtCalls, thoughts, store, sessionIds, discardedSessions,
                   reassignedSessions, diff, replay, others>>

\* Cmd+R, up to the await: the continuation keeps the editCount of this render
ToggleRecordModePress ==
    /\ calls < MaxCalls
    /\ calls' = calls + 1
    /\ toggleCalls' = toggleCalls (+) SetToBag({[editCount |-> editCount]})
    /\ UNCHANGED <<ui, thoughtCalls, net, thoughts, store, history, diff, replay, others>>

\* Cmd+R, after the await: invoke resolved with newState
ToggleRecordModeResolve(call, newState) ==
    /\ BagIn(call, toggleCalls)
    /\ toggleCalls' = toggleCalls (-) SetToBag({call})
    /\ recordMode' = newState
    /\ IF ~newState /\ call.editCount > 0
       THEN /\ editCount' = 0
            /\ sequenceNum' = 0
            /\ confirmingDiscard' = FALSE
            /\ lastInputValueRef' = <<>>
       ELSE UNCHANGED <<editCount, sequenceNum, confirmingDiscard, lastInputValueRef>>
    /\ sessionIds' = IF ~recordMode /\ newState
                     THEN Append(sessionIds, currentSessionId) ELSE sessionIds
    /\ sessionOps' = IF ~recordMode /\ newState THEN 0 ELSE sessionOps
    /\ UNCHANGED <<input, currentSessionId, thoughtCalls, net, thoughts, store,
                   discardedSessions, reassignedSessions, counters, diff, replay, others>>

\* Cmd+R, after the await: invoke rejected, the catch only logs
ToggleRecordModeReject(call) ==
    /\ BagIn(call, toggleCalls)
    /\ toggleCalls' = toggleCalls (-) SetToBag({call})
    /\ UNCHANGED <<ui, thoughtCalls, net, thoughts, store, history, counters, diff, replay, others>>

\* 'y' while confirming: discard the history and close
ConfirmDiscard ==
    /\ confirmingDiscard
    /\ net' = Send([kind |-> "deleteEditOperations",
                    thought_id |-> currentSessionId,
                    session |-> CurrentSession])
    /\ ResetRecorder
    /\ UNCHANGED <<input, currentSessionId, toggleCalls, thoughtCalls, thoughts,
                   store, history, counters, diff, replay, others>>

\* 'n' while confirming: leaves the confirmation, then reaches the final return
KeepHistory ==
    /\ confirmingDiscard
    /\ confirmingDiscard' = FALSE
    /\ UNCHANGED <<input, lastInputValueRef, recordMode, editCount, currentSessionId,
                   sequenceNum, toggleCalls, thoughtCalls, net, thoughts, store,
                   history, counters, diff, replay, others>>

\* Escape while confirming: back to editing
CancelConfirmation ==
    /\ confirmingDiscard
    /\ confirmingDiscard' = FALSE
    /\ UNCHANGED <<input, lastInputValueRef, recordMode, editCount, currentSessionId,
                   sequenceNum, toggleCalls, thoughtCalls, net, thoughts, store,
                   history, counters, diff, replay, others>>

\* as HandleEscape, asking for confirmation whatever the recorder holds
HandleEscapeAlwaysConfirms ==
    /\ ~confirmingDiscard
    /\ confirmingDiscard' = TRUE
    /\ UNCHANGED <<input, lastInputValueRef, recordMode, editCount, currentSessionId,
                   sequenceNum, toggleCalls, thoughtCalls, net, thoughts, store,
                   history, counters, diff, replay, others>>

\* Escape while editing: ask for confirmation, or hide the window
HandleEscape ==
    /\ ~confirmingDiscard
    /\ confirmingDiscard' = (recordMode /\ editCount > 0)
    /\ UNCHANGED <<input, lastInputValueRef, recordMode, editCount, currentSessionId,
                   sequenceNum, toggleCalls, thoughtCalls, net, thoughts, store,
                   history, counters, diff, replay, others>>

\* Enter while editing: createThought is called with the callbacks of this render
HandleEnter ==
    /\ ~confirmingDiscard
    /\ Trim(input) # <<>>
    /\ calls < MaxCalls
    /\ calls' = calls + 1
    /\ thoughtCalls' = thoughtCalls (+) SetToBag({[content |-> Trim(input),
                                                   recordMode |-> recordMode,
                                                   editCount |-> editCount,
                                                   session |-> CurrentSession]})
    /\ UNCHANGED <<ui, toggleCalls, net, thoughts, store, history, diff, replay, others>>

\* as RecordingWithEdits, with the comparison off by one
RecordingWithSeveralEdits(call) == call.recordMode /\ call.editCount > 1

\* onSuccess: `recordMode && editCount > 0`, on the values of the render that
\* handled Enter
RecordingWithEdits(call) == call.recordMode /\ call.editCount > 0

\* createThought inserted the row (AUTOINCREMENT id); onSuccess runs.  The fields
\* session and journaled of the row are bookkeeping, not columns.
CreateThoughtSuccess(call) ==
    /\ BagIn(call, thoughtCalls)
    /\ thoughtCalls' = thoughtCalls (-) SetToBag({call})
    /\ LET newThought == [id |-> Cardinality(thoughts) + 1,
                          content |-> call.content,
                          session |-> call.session,
                          journaled |-> IF call.recordMode THEN call.editCount ELSE 0]
       IN  /\ thoughts' = thoughts \cup {newThought}
           /\ IF RecordingWithEdits(call)
              THEN net' = Send([kind |-> "updateEditOperationsThoughtId",
                                old_thought_id |-> currentSessionId,
                                new_thought_id |-> newThought.id,
                                session |-> call.session])
              ELSE UNCHANGED net
    /\ input' = <<>>
    /\ ResetRecorder
    /\ UNCHANGED <<currentSessionId, toggleCalls, store, history, counters, diff, replay, others>>

\* as CreateThoughtError, with the resets of onSuccess
CreateThoughtErrorResets(call) ==
    /\ BagIn(call, thoughtCalls)
    /\ thoughtCalls' = thoughtCalls (-) SetToBag({call})
    /\ input' = ErrorText
    /\ ResetRecorder
    /\ UNCHANGED <<currentSessionId, toggleCalls, net, thoughts, store,
                   history, counters, diff, replay, others>>

\* createThought failed; onError shows the message in the text box
CreateThoughtError(call) ==
    /\ BagIn(call, thoughtCalls)
    /\ thoughtCalls' = thoughtCalls (-) SetToBag({call})
    /\ input' = ErrorText
    /\ UNCHANGED <<lastInputValueRef, recordMode, editCount, confirmingDiscard,
                   currentSessionId, sequenceNum, toggleCalls, net, thoughts, store,
                   history, counters, diff, replay, others>>

\* ---- Server: one mutation executed ----
ServeCreateEditOperation(m) ==
    /\ BagIn(m, net) /\ m.kind = "createEditOperation"
    /\ net' = Receive(m)
    /\ editOperations' = CreateEditOperation(editOperations, nextEditOperationId, m)
    /\ nextEditOperationId' = nextEditOperationId + 1
    /\ UNCHANGED <<ui, toggleCalls, thoughtCalls, thoughts, history, counters, diff, replay, others>>

ServeUpdateEditOperationsThoughtId(m) ==
    /\ BagIn(m, net) /\ m.kind = "updateEditOperationsThoughtId"
    /\ net' = Receive(m)
    /\ editOperations' = UpdateEditOperationsThoughtId(editOperations,
                             m.old_thought_id, m.new_thought_id)
    /\ reassignedSessions' = reassignedSessions \cup
                             {[session |-> m.session, thought_id |-> m.new_thought_id]}
    /\ UNCHANGED <<ui, toggleCalls, thoughtCalls, thoughts, nextEditOperationId,
                   sessionIds, discardedSessions, sessionOps, counters, diff, replay, others>>

ServeDeleteEditOperations(m) ==
    /\ BagIn(m, net) /\ m.kind = "deleteEditOperations"
    /\ net' = Receive(m)
    /\ editOperations' = DeleteEditOperations(editOperations, m.thought_id)
    /\ discardedSessions' = discardedSessions \cup {m.session}
    /\ UNCHANGED <<ui, toggleCalls, thoughtCalls, thoughts, nextEditOperationId,
                   sessionIds, reassignedSessions, sessionOps, counters, diff, replay, others>>

\* as MutationFails, rolling the sequence counter back when an append fails
MutationFailsRollsBack(m) ==
    /\ BagIn(m, net)
    /\ net' = Receive(m)
    /\ IF m.kind = "createEditOperation" /\ sequenceNum > 0
       THEN /\ sequenceNum' = sequenceNum - 1
            /\ editCount' = sequenceNum - 1
       ELSE UNCHANGED <<sequenceNum, editCount>>
    /\ UNCHANGED <<input, lastInputValueRef, recordMode, confirmingDiscard,
                   currentSessionId, toggleCalls, thoughtCalls, thoughts, store,
                   history, counters, diff, replay, others>>

\* a mutation that fails (storage or transport): nothing is written; the append's
\* onError logs, the other two calls pass no callback
MutationFails(m) ==
    /\ BagIn(m, net)
    /\ net' = Receive(m)
    /\ UNCHANGED <<ui, toggleCalls, thoughtCalls, thoughts, store, history, counters, diff, replay, others>>

Next ==
    \/ \E newValue \in Strings : \E selectionStart \in CaretPositions(newValue) :
          HandleInputChange(newValue, selectionStart)
    \/ ToggleRecordModePress
    \/ \E call \in BagToSet(toggleCalls) : \E newState \in BOOLEAN :
          ToggleRecordModeResolve(call, newState)
    \/ \E call \in BagToSet(toggleCalls) : ToggleRecordModeReject(call)
    \/ ConfirmDiscard
    \/ KeepHistory
    \/ CancelConfirmation
    \/ HandleEscape
    \/ HandleEnter
    \/ \E call \in BagToSet(thoughtCalls) : CreateThoughtSuccess(call)
    \/ \E call \in BagToSet(thoughtCalls) : CreateThoughtError(call)
    \/ \E m \in BagToSet(net) : ServeCreateEditOperation(m)
    \/ \E m \in BagToSet(net) : ServeUpdateEditOperationsThoughtId(m)
    \/ \E m \in BagToSet(net) : ServeDeleteEditOperations(m)
    \/ \E m \in BagToSet(net) : MutationFails(m)

Spec == Init /\ [][Next]_vars

\* ---- The panel with a store and a notes service that never fail ----
ReliableNext ==
    \/ \E newValue \in Strings : \E selectionStart \in CaretPositions(newValue) :
          HandleInputChange(newValue, selectionStart)
    \/ ToggleRecordModePress
    \/ \E call \in BagToSet(toggleCalls) : \E newState \in BOOLEAN :
          ToggleRecordModeResolve(call, newState)
    \/ \E call \in BagToSet(toggleCalls) : ToggleRecordModeReject(call)
    \/ ConfirmDiscard
    \/ KeepHistory
    \/ CancelConfirmation
    \/ HandleEscape
    \/ HandleEnter
    \/ \E call \in BagToSet(thoughtCalls) : CreateThoughtSuccess(call)
    \/ \E m \in BagToSet(net) : ServeCreateEditOperation(m)
    \/ \E m \in BagToSet(net) : ServeUpdateEditOperationsThoughtId(m)
    \/ \E m \in BagToSet(net) : ServeDeleteEditOperations(m)

ReliableSpec == Init /\ [][ReliableNext]_vars

\* ---- The panel after a first recording session was toggled off ----
\* The state of the panel and the store after Cmd+R (on), "a" typed and
\* journaled, Cmd+R (off): the recorder is reset, the text and the row stay.
AfterToggleOff ==
    /\ input = <<"a">>
    /\ lastInputValueRef = <<>>
    /\ recordMode = FALSE
    /\ editCount = 0
    /\ confirmingDiscard = FALSE
    /\ currentSessionId \in {ProvisionalId(now) : now \in MountTimes}
    /\ sequenceNum = 0
    /\ toggleCalls = EmptyBag
    /\ thoughtCalls = EmptyBag
    /\ net = EmptyBag
    /\ thoughts = {}
    /\ editOperations =
          CreateEditOperation({}, 1,
              [thought_id |-> currentSessionId, sequence_num |-> 1,
               operation_type |-> "insert", position |-> 0, content |-> <<"a">>,
               session |-> 1, ordinal |-> 1])
    /\ nextEditOperationId = 2
    /\ sessionIds = <<currentSessionId>>
    /\ discardedSessions = {}
    /\ reassignedSessions = {}
    /\ sessionOps = 1

\* the calls are counted from here on
ResumedInit ==
    /\ AfterToggleOff
    /\ calls = 0
    /\ prevText = <<>>
    /\ newText = <<>>
    /\ computed = Null
    /\ query = "loading"
    /\ operations = <<>>
    /\ playbackState = InitialPlaybackState
    /\ timeoutArmed = FALSE
    /\ strayTimeouts = 0
    /\ replayWindow = "mounted"
    /\ OthersInit

ResumedSpec == ResumedInit /\ [][ReliableNext]_vars

\* ---- computeEditOperation on its own ----
\* one call of computeEditOperation(a, b, c); the panel is left alone
Diff(a, b, c) ==
    /\ prevText' = a
    /\ newText' = b
    /\ computed' = ComputeEditOperation(a, b, c)
    /\ UNCHANGED <<ui, toggleCalls, thoughtCalls, net, thoughts, store, history,
                   counters, replay, others>>

DiffNext ==
    \E a \in DiffStrings : \E b \in DiffStrings : \E c \in 0..Len(b) : Diff(a, b, c)

DiffSpec == Init /\ [][DiffNext]_vars

\* ---- Replay window: renders, the playback loop and the controls ----
panel == <<ui, toggleCalls, thoughtCalls, net, thoughts, store, history, counters,
           diff, others>>

\* as ClearTimeout, with the effect returning no cleanup: the timeout stays pending
KeepTimeout(armed, stray) == IF armed THEN stray + 1 ELSE stray

\* the effect's cleanup, clearTimeout(timeoutId): the timeouts left pending
\* that nothing will clear
ClearTimeout(armed, stray) == stray

\* as Render, with the effect arming a timeout at the last frame too
RenderWithoutPause(next, data, armed, stray) ==
    LET changed == \/ next.isPlaying # playbackState.isPlaying
                   \/ next.currentFrameIndex # playbackState.currentFrameIndex
                   \/ next.speed # playbackState.speed
                   \/ data # operations
    IN  /\ playbackState' = next
        /\ IF ~changed
           THEN timeoutArmed' = armed /\ strayTimeouts' = stray
           ELSE /\ strayTimeouts' = ClearTimeout(armed, stray)
                /\ timeoutArmed' = next.isPlaying

\* One render with the data `data` and the reducer state `next`, and the
\* playback effect after it.  The effect runs when one of its dependencies
\* (isPlaying, currentFrameIndex, delays, frames.length) changed: the cleanup
\* of the previous run first, then either nothing (paused), PAUSE at the last
\* frame, or a timeout that will dispatch NEXT_FRAME.
Render(next, data, armed, stray) ==
    LET frames == Frames(data)
        changed == \/ next.isPlaying # playbackState.isPlaying
                   \/ next.currentFrameIndex # playbackState.currentFrameIndex
                   \/ next.speed # playbackState.speed
                   \/ data # operations
    IN  IF ~changed
        THEN /\ playbackState' = next
             /\ timeoutArmed' = armed
             /\ strayTimeouts' = stray
        ELSE /\ strayTimeouts' = ClearTimeout(armed, stray)
             /\ IF ~next.isPlaying
                THEN playbackState' = next /\ timeoutArmed' = FALSE
                ELSE IF next.currentFrameIndex >= Len(frames) - 1
                THEN /\ playbackState' = PlaybackReducer(next, [type |-> "PAUSE"])
                     /\ timeoutArmed' = FALSE
                ELSE playbackState' = next /\ timeoutArmed' = TRUE

\* dispatch(action) from a key, a control or a timeout
Dispatch(action) ==
    /\ replayWindow = "mounted"
    /\ Render(PlaybackReducer(playbackState, action), operations, timeoutArmed,
              strayTimeouts)
    /\ UNCHANGED <<query, operations, replayWindow, panel>>

\* getEditOperations answers.  generateFrames throws on a log it cannot
\* reconstruct, inside the render: the window is torn down.
QuerySucceeds(data) ==
    /\ replayWindow = "mounted"
    /\ query = "loading"
    /\ query' = "success"
    /\ operations' = data
    /\ IF data # <<>> /\ StructuralError(data)
       THEN /\ replayWindow' = "crashed"
            /\ strayTimeouts' = ClearTimeout(timeoutArmed, strayTimeouts)
            /\ timeoutArmed' = FALSE
            /\ UNCHANGED playbackState
       ELSE /\ Render(playbackState, data, timeoutArmed, strayTimeouts)
            /\ UNCHANGED replayWindow
    /\ UNCHANGED panel

\* getEditOperations fails, retries included
QueryFails ==
    /\ replayWindow = "mounted"
    /\ query = "loading"
    /\ query' = "error"
    /\ UNCHANGED <<operations, playbackState, timeoutArmed, strayTimeouts,
                   replayWindow, panel>>

\* the Retry button: window.location.reload()
Reload ==
    /\ replayWindow = "mounted"
    /\ query = "error"
    /\ query' = "loading"
    /\ operations' = <<>>
    /\ playbackState' = InitialPlaybackState
    /\ timeoutArmed' = FALSE
    /\ strayTimeouts' = 0
    /\ UNCHANGED <<replayWindow, panel>>

\* the window is closed: the effect's cleanup runs
Unmount ==
    /\ replayWindow = "mounted"
    /\ replayWindow' = "closed"
    /\ strayTimeouts' = ClearTimeout(timeoutArmed, strayTimeouts)
    /\ timeoutArmed' = FALSE
    /\ UNCHANGED <<query, operations, playbackState, panel>>

\* as View, without the return for an empty history
ViewWithoutEmptyHistory ==
    IF replayWindow = "crashed" THEN "structural error"
    ELSE IF query = "error" THEN "Failed to load edit history"
    ELSE IF query = "loading" THEN "Loading edit history..."
    ELSE "frame"

\* what the window shows: the message of the first early return that applies
\* (a render that threw shows nothing but its error), else the current frame
View ==
    IF replayWindow = "crashed" THEN "structural error"
    ELSE IF query = "error" THEN "Failed to load edit history"
    ELSE IF query = "loading" THEN "Loading edit history..."
    ELSE IF operations = <<>> THEN "No edit history available for this thought"
    ELSE "frame"

\* the controls are rendered once a non-empty history is loaded
ControlsShown == query = "success" /\ operations # <<>>

\* the space key, or the play/pause button
TogglePlayback == Dispatch([type |-> "TOGGLE"])

\* ArrowLeft
SeekBackward ==
    /\ playbackState.currentFrameIndex > 0
    /\ Dispatch([type |-> "SEEK",
                 frameIndex |-> playbackState.currentFrameIndex - 1])

\* as SeekForward, without the test against the last frame
SeekForwardUnguarded ==
    Dispatch([type |-> "SEEK",
              frameIndex |-> playbackState.currentFrameIndex + 1])

\* ArrowRight
SeekForward ==
    /\ playbackState.currentFrameIndex < Len(Frames(operations)) - 1
    /\ Dispatch([type |-> "SEEK",
                 frameIndex |-> playbackState.currentFrameIndex + 1])

\* the slider, min 0 and max totalFrames - 1
SeekSlider(frameIndex) ==
    /\ ControlsShown
    /\ frameIndex \in 0..(Len(Frames(operations)) - 1)
    /\ Dispatch([type |-> "SEEK", frameIndex |-> frameIndex])

\* the "0" key, or the restart button
Restart == Dispatch([type |-> "RESTART"])

\* the keys "1".."4", or a speed button
ChangeSpeed(speed) == Dispatch([type |-> "CHANGE_SPEED", speed |-> speed])

\* a pending timeout runs out: its callback dispatches NEXT_FRAME
TimeoutFires ==
    \E armed \in BOOLEAN, stray \in {strayTimeouts, strayTimeouts - 1} :
        /\ \/ timeoutArmed /\ ~armed /\ stray = strayTimeouts
           \/ strayTimeouts > 0 /\ armed = timeoutArmed /\ stray = strayTimeouts - 1
        /\ IF replayWindow = "mounted"
           THEN Render(PlaybackReducer(playbackState, [type |-> "NEXT_FRAME"]),
                       operations, armed, stray)
           ELSE /\ timeoutArmed' = armed
                /\ strayTimeouts' = stray
                /\ UNCHANGED playbackState
        /\ UNCHANGED <<query, operations, replayWindow, panel>>

ReplayNext ==
    \/ \E data \in Logs : QuerySucceeds(data)
    \/ QueryFails
    \/ Reload
    \/ Unmount
    \/ TogglePlayback
    \/ SeekBackward
    \/ SeekForward
    \/ \E frameIndex \in 0..(MaxFrames - 1) : SeekSlider(frameIndex)
    \/ Restart
    \/ \E speed \in SpeedOptions : ChangeSpeed(speed)
    \/ TimeoutFires

ReplaySpec == Init /\ [][ReplayNext]_vars

\* the browser runs a pending timeout's callback in the end
ReplayFairSpec == ReplaySpec /\ WF_vars(TimeoutFires)

\* ---- Main window: the list of thoughts, page by page ----
\* createThought: INSERT INTO thoughts, the id from AUTOINCREMENT
InsertThought(content) ==
    /\ Cardinality(thoughts) < MaxThoughts
    /\ thoughts' = thoughts \cup {[id |-> Cardinality(thoughts) + 1,
                                   content |-> content, session |-> 0,
                                   journaled |-> 0]}
    /\ UNCHANGED <<ui, toggleCalls, thoughtCalls, net, store, history, counters,
                   diff, replay, others>>

\* useInfiniteQuery with a new key: the first page, without a cursor
FetchFirstPage(limit, search) ==
    /\ listQuery' = [limit |-> limit, search |-> search]
    /\ pages' = <<GetThoughtsPaginated(thoughts, limit, NoCursor, search)>>
    /\ listedAtFirst' = {t.id : t \in {x \in thoughts : Like(x.content, search)}}
    /\ UNCHANGED <<ui, toggleCalls, thoughtCalls, net, thoughts, store, history,
                   counters, diff, replay, client, chat>>

\* getNextPageParam of the last page
NextPageParam == pages[Len(pages)].nextCursor

\* fetchNextPage, offered while hasNextPage
FetchNextPage ==
    /\ pages # <<>>
    /\ NextPageParam # NoCursor
    /\ pages' = Append(pages, GetThoughtsPaginated(thoughts, listQuery.limit,
                                                   NextPageParam, listQuery.search))
    /\ UNCHANGED <<listQuery, listedAtFirst>>
    /\ UNCHANGED <<ui, toggleCalls, thoughtCalls, net, thoughts, store, history,
                   counters, diff, replay, client, chat>>

PagingNext ==
    \/ \E content \in ThoughtContents : InsertThought(content)
    \/ \E limit \in 1..MaxLimit : \E search \in SearchTerms :
          FetchFirstPage(limit, search)
    \/ FetchNextPage

PagingSpec == Init /\ [][PagingNext]_vars

\* ---- Webview start: initializeTrpcClient, waitForServer ----
desktop == <<ui, toggleCalls, thoughtCalls, net, thoughts, store, history,
             counters, diff, replay, paging, chat>>

\* as LoopHead, with one more turn of the loop (i <= maxRetries)
LoopHeadOneMore(call, i) ==
    IF i <= MaxRetries
    THEN [call EXCEPT !.pc = "fetch", !.i = i, !.requests = @ + 1,
                      !.wait = "running"]
    ELSE [call EXCEPT !.pc = "rejected", !.i = i, !.wait = "thrown"]

\* waitForServer, loop head: `i < maxRetries` issues a health request, else throws
LoopHead(call, i) ==
    IF i < MaxRetries
    THEN [call EXCEPT !.pc = "fetch", !.i = i, !.requests = @ + 1,
                      !.wait = "running"]
    ELSE [call EXCEPT !.pc = "rejected", !.i = i, !.wait = "thrown"]

\* initializeTrpcClient up to its first await that leaves the event-loop turn:
\* the cached client if there is one, else invoke("get_sidecar_port") when no
\* port is cached, else the first health request of waitForServer
InitializeTrpcClient(c) ==
    /\ inits[c].pc = "idle"
    /\ inits' = [inits EXCEPT ![c] =
                    IF cachedClient # NoClient
                    THEN [@ EXCEPT !.pc = "resolved", !.client = cachedClient]
                    ELSE IF cachedPort = NoPort
                         THEN [@ EXCEPT !.pc = "invoke"]
                         ELSE LoopHead(@, 0)]
    /\ UNCHANGED <<cachedPort, cachedClient, clientsCreated, desktop>>

\* getSidecarPort: invoke answers; waitForServer(port) starts
InvokeAnswers(c) ==
    /\ inits[c].pc = "invoke"
    /\ cachedPort' = SidecarPort
    /\ inits' = [inits EXCEPT ![c] = LoopHead(@, 0)]
    /\ UNCHANGED <<cachedClient, clientsCreated, desktop>>

\* getSidecarPort: invoke rejects, and so does initializeTrpcClient
InvokeFails(c) ==
    /\ inits[c].pc = "invoke"
    /\ inits' = [inits EXCEPT ![c].pc = "rejected"]
    /\ UNCHANGED <<cachedPort, cachedClient, clientsCreated, desktop>>

\* the health request answers ok: waitForServer returns, createClient runs
\* and its client is cached and returned
HealthOk(c) ==
    /\ inits[c].pc = "fetch"
    /\ clientsCreated' = clientsCreated + 1
    /\ cachedClient' = clientsCreated + 1
    /\ inits' = [inits EXCEPT ![c] =
                    [@ EXCEPT !.pc = "resolved", !.wait = "returned",
                              !.answers = Append(@, TRUE),
                              !.client = clientsCreated + 1]]
    /\ UNCHANGED <<cachedPort, desktop>>

\* the health request throws or answers not ok: the delay starts
HealthFails(c) ==
    /\ inits[c].pc = "fetch"
    /\ inits' = [inits EXCEPT ![c] =
                    [@ EXCEPT !.pc = "delay", !.answers = Append(@, FALSE)]]
    /\ UNCHANGED <<cachedPort, cachedClient, clientsCreated, desktop>>

\* setTimeout(r, delayMs) fires: i++, back to the loop head
DelayElapses(c) ==
    /\ inits[c].pc = "delay"
    /\ inits' = [inits EXCEPT ![c] = LoopHead(@, @.i + 1)]
    /\ UNCHANGED <<cachedPort, cachedClient, clientsCreated, desktop>>

ClientNext ==
    \/ \E c \in Inits : InitializeTrpcClient(c)
    \/ \E c \in Inits : InvokeAnswers(c)
    \/ \E c \in Inits : InvokeFails(c)
    \/ \E c \in Inits : HealthOk(c)
    \/ \E c \in Inits : HealthFails(c)
    \/ \E c \in Inits : DelayElapses(c)

ClientSpec == Init /\ [][ClientNext]_vars

\* every invoke and every health request settles, every timer fires
ClientFairSpec ==
    ClientSpec /\ \A c \in Inits : /\ WF_vars(InvokeAnswers(c) \/ InvokeFails(c))
                                   /\ WF_vars(HealthOk(c) \/ HealthFails(c))
                                   /\ WF_vars(DelayElapses(c))



\* ---- Properties ----
InFlight(kind) == {m \in BagToSet(net) : m.kind = kind}
RowsOf(rows, thought_id) == {r \in rows : r.thought_id = thought_id}
ThoughtIds(rows) == {r.thought_id : r \in rows}
\* the messages a step adds to net
Sent == {m \in BagToSet(net') : CopiesIn(m, net') > CopiesIn(m, net)}
\* the createThought call a step completes by inserting a thought
Committed(call) ==
    /\ BagIn(call, thoughtCalls)
    /\ thoughtCalls' = thoughtCalls (-) SetToBag({call})
    /\ thoughts' # thoughts

\* C1: session round trip.  For every note committed from a recording session
\* whose journaled operations are all stored under the note's id (as many rows as
\* the session had journaled at the submit, all of that session, no call in
\* flight), replaying getEditOperations(note id) from the empty text gives the
\* text of the note.
C1_SessionRoundTrip ==
    \A t \in thoughts :
        LET rows == RowsOf(editOperations, t.id)
        IN  (/\ t.journaled > 0
             /\ BagToSet(net) = {}
             /\ BagToSet(thoughtCalls) = {}
             /\ Cardinality(rows) = t.journaled
             /\ \A r \in rows : r.session = t.session)
            => Replay(<<>>, GetEditOperations(editOperations, t.id)) = t.content

\* the row createEditOperation stores for an operation journaled as number n
StoredAs(operation, n) ==
    CHOOSE r \in CreateEditOperation({}, n,
                     [thought_id |-> -1, sequence_num |-> n,
                      operation_type |-> operation.type,
                      position |-> operation.position,
                      content |-> operation.content, session |-> 1,
                      ordinal |-> n]) : TRUE

\* the row createEditOperation stores for the result of computeEditOperation
StoredOperation == StoredAs(computed, 1)

\* C2: single-step replay.  For a # b, applying the stored operation of
\* computeEditOperation(a, b, c) to a (insert: splice content in at position;
\* delete: remove content_length characters at position; replace: remove
\* content_length characters, then insert content, at position) gives b.
C2_SingleStepReplay ==
    computed # Null => ApplyOperation(prevText, StoredOperation) = newText

\* C3: sequence contiguity.  Whenever no edit-history call is in flight, the
\* sequence_num values stored under any one thought_id are exactly 1..N, each
\* once.
C3_SequenceContiguity ==
    BagToSet(net) = {} =>
        \A tid \in ThoughtIds(editOperations) :
            LET rows == RowsOf(editOperations, tid)
            IN  /\ {r.sequence_num : r \in rows} = 1..Cardinality(rows)
                /\ \A r, q \in rows : r.sequence_num = q.sequence_num => r = q

\* C4: each Idle -> Recording transition uses a session id that no earlier
\* session of the panel used.
C4_FreshSessionIdentity ==
    \A i, j \in DOMAIN sessionIds : i # j => sessionIds[i] # sessionIds[j]

\* C5: late appends.  No stored operation of a session whose discard was executed
\* is under that session's provisional id, and every stored operation of a session
\* whose reassignment was executed is under the note's id.
C5_LateAppendsTolerated ==
    \A r \in editOperations :
        /\ r.session \in discardedSessions => r.thought_id # sessionIds[r.session]
        /\ \A x \in reassignedSessions :
              x.session = r.session => r.thought_id = x.thought_id

\* C6: in every reachable state, executing an updateEditOperationsThoughtId(old,
\* new) call that is in flight leaves getEditOperations(old) empty, makes
\* getEditOperations(new) what getEditOperations(old) was, relabelled and in the
\* same order, and leaves the result for every other thought_id unchanged.
C6_ReassignmentPostcondition ==
    \A m \in InFlight("updateEditOperationsThoughtId") :
        LET after == UpdateEditOperationsThoughtId(editOperations,
                         m.old_thought_id, m.new_thought_id)
            old == GetEditOperations(editOperations, m.old_thought_id)
        IN  /\ GetEditOperations(after, m.old_thought_id) = <<>>
            /\ GetEditOperations(after, m.new_thought_id)
                  = [i \in DOMAIN old |-> [old[i] EXCEPT !.thought_id = m.new_thought_id]]
            /\ \A tid \in (ThoughtIds(editOperations) \cup ThoughtIds(after))
                             \ {m.old_thought_id, m.new_thought_id} :
                  GetEditOperations(after, tid) = GetEditOperations(editOperations, tid)

\* a reassignment moved two or more operations to a note
W6_ReassignedSeveral ==
    \E x \in reassignedSessions :
        Cardinality(RowsOf(editOperations, x.thought_id)) >= 2

\* C7: a reassignment is one step of the log, and in the log it leaves, the
\* operations that were stored under one thought_id are all under one thought_id:
\* none of them under the old id while others are under the new one.
C7_ReassignmentAtomic ==
    \A m \in InFlight("updateEditOperationsThoughtId") :
        LET after == UpdateEditOperationsThoughtId(editOperations,
                         m.old_thought_id, m.new_thought_id)
        IN  \A tid \in ThoughtIds(editOperations) :
               LET ids == {r.id : r \in RowsOf(editOperations, tid)}
               IN  Cardinality({r.thought_id : r \in {q \in after : q.id \in ids}}) = 1

\* two operations of one recording session are stored under a note's id
W7_SessionUnderNote ==
    \E r, q \in editOperations :
        /\ r.id # q.id
        /\ r.session = q.session
        /\ r.thought_id = q.thought_id
        /\ r.thought_id \in {t.id : t \in thoughts}

\* C8: in every reachable state, executing a deleteEditOperations(id) call that is
\* in flight leaves getEditOperations(id) empty and the result for every other
\* thought_id unchanged.
C8_DiscardPostcondition ==
    \A m \in InFlight("deleteEditOperations") :
        LET after == DeleteEditOperations(editOperations, m.thought_id)
        IN  /\ GetEditOperations(after, m.thought_id) = <<>>
            /\ \A tid \in (ThoughtIds(editOperations) \cup ThoughtIds(after))
                             \ {m.thought_id} :
                  GetEditOperations(after, tid) = GetEditOperations(editOperations, tid)

\* a discard removed operations and left those of another thought_id
W8_DiscardedSome ==
    /\ discardedSessions # {}
    /\ editOperations # {}
    /\ Cardinality(editOperations) < nextEditOperationId - 1
    /\ \A r \in editOperations : r.thought_id \notin Range(sessionIds)

C10_OneNotePerSession ==
    \A t, u \in thoughts : (t.session = u.session /\ t.session > 0) => t = u

\* the createThought calls a step starts
Submitted ==
    {call \in BagToSet(thoughtCalls') :
        CopiesIn(call, thoughtCalls') > CopiesIn(call, thoughtCalls)}

\* C11: keep history.  The step that handles 'n' in the discard confirmation, with
\* text in the box, leaves the confirmation and starts the createThought call of a
\* normal submission, with the session still recording.
C11_KeepHistorySubmits ==
    [][(KeepHistory /\ Trim(input) # <<>>) =>
          /\ ~confirmingDiscard'
          /\ Submitted # {}
          /\ recordMode' = recordMode /\ editCount' = editCount]_vars

\* C12: failed reassignment or discard.  The step in which an
\* updateEditOperationsThoughtId or deleteEditOperations call fails leaves the
\* recorder holding the session of that call: record mode on, in that session,
\* with its sequence counter.
C12_FailureKeepsSession ==
    [][\A m \in BagToSet(net) :
          (/\ m.kind \in {"updateEditOperationsThoughtId", "deleteEditOperations"}
           /\ MutationFails(m)) =>
              /\ recordMode'
              /\ Len(sessionIds') = m.session
              /\ sequenceNum' > 0]_vars

\* the operations journaled by recording session n that are stored or on their way
Journal(n) ==
    {r \in editOperations : r.session = n}
        \cup {m \in InFlight("createEditOperation") : m.session = n}

\* C13: append failure does not disturb numbering.  In every reachable state,
\* after any appends have failed: while recording, the sequence counter is at
\* least every sequence_num of the session that is stored or in flight (so the
\* next operation gets a strictly larger one), and no two operations of one
\* recording session, stored or in flight, carry the same sequence_num.
C13_AppendFailureKeepsNumbering ==
    /\ recordMode =>
          \A x \in Journal(CurrentSession) : x.sequence_num <= sequenceNum
    /\ \A n \in DOMAIN sessionIds :
          /\ \A m \in InFlight("createEditOperation") :
                m.session = n =>
                   /\ CopiesIn(m, net) = 1
                   /\ \A r \in editOperations :
                         r.session = n => r.sequence_num # m.sequence_num
                   /\ \A k \in InFlight("createEditOperation") :
                         (k.session = n /\ k.sequence_num = m.sequence_num) => k = m
          /\ \A r, q \in editOperations :
                (r.session = n /\ q.session = n /\ r.sequence_num = q.sequence_num)
                   => r = q

\* an append of the current session failed (nothing was ever deleted), recording
\* went on and a later operation of the session is stored with a larger number
W13_RecordingAfterFailedAppend ==
    /\ recordMode
    /\ discardedSessions = {}
    /\ Cardinality(Journal(CurrentSession)) < sequenceNum
    /\ \E r \in editOperations :
          r.session = CurrentSession /\ r.sequence_num = sequenceNum

\* C14: ordering is independent of completion order.  Whatever order the appends
\* completed in, getEditOperations returns the operations of any one recording
\* session in the order in which their text changes occurred.
C14_OrderIndependentOfCompletion ==
    \A tid \in ThoughtIds(editOperations) :
        LET listed == GetEditOperations(editOperations, tid)
        IN  \A i, j \in DOMAIN listed :
               (i < j /\ listed[i].session = listed[j].session)
                  => listed[i].ordinal < listed[j].ordinal

\* two appends of one session completed in the opposite order of their text changes
W14_CompletedOutOfOrder ==
    \E r, q \in editOperations :
        /\ r.session = q.session
        /\ r.thought_id = q.thought_id
        /\ r.id < q.id
        /\ r.ordinal > q.ordinal

Max(S) == CHOOSE n \in S : \A k \in S : k <= n

\* the row an append in flight would store if it were executed now
RowStoredFor(m) ==
    CHOOSE r \in CreateEditOperation(editOperations, nextEditOperationId, m) :
        r.id = nextEditOperationId

\* C15: append assigns the sequence number itself.  For every createEditOperation
\* call in flight, the sequence_num of the row it stores is the largest
\* sequence_num stored under its thought_id plus one, or 1 when there is none.
C15_AppendAssignsNext ==
    \A m \in InFlight("createEditOperation") :
        LET existing == {r.sequence_num : r \in RowsOf(editOperations, m.thought_id)}
        IN  RowStoredFor(m).sequence_num
               = IF existing = {} THEN 1 ELSE Max(existing) + 1

\* C15 as amended: for every createEditOperation call in flight, executing it adds
\* exactly one row, under the call's thought_id and with the sequence_num the
\* caller passed, and leaves the stored rows as they are.
C15_AppendKeepsCallerNumber ==
    \A m \in InFlight("createEditOperation") :
        LET after == CreateEditOperation(editOperations, nextEditOperationId, m)
        IN  /\ after \ editOperations = {RowStoredFor(m)}
            /\ editOperations \subseteq after
            /\ RowStoredFor(m).thought_id = m.thought_id
            /\ RowStoredFor(m).sequence_num = m.sequence_num

\* the append journaled second arrived first and is stored with its number 2
W15_SecondStoredFirst ==
    \E r \in editOperations :
        /\ r.sequence_num = 2
        /\ r.ordinal = 2
        /\ \A q \in editOperations : r.id <= q.id
        /\ \E m \in InFlight("createEditOperation") :
              m.session = r.session /\ m.sequence_num = 1

\* C16: session numbering starts at 1.  While recording, the sequence counter is
\* the number of text changes journaled since record mode was turned on (0 on
\* entering Recording), and every operation stored or in flight carries as
\* sequence_num its place among the text changes of its session: 1, 2, 3, ...
C16_SessionNumberingFromOne ==
    /\ recordMode => sequenceNum = sessionOps
    /\ \A n \in DOMAIN sessionIds :
          \A x \in Journal(n) : x.sequence_num = x.ordinal

\* C17: terminal states reset to Idle.  The step that commits a recording session
\* (createThought succeeded) and the step that confirms a discard ('y') leave the
\* recorder as a freshly started one: record mode off, sequence counter and edit
\* count 0, not confirming, diff base empty, text box empty.
C17_TerminalStatesResetToIdle ==
    [][(\/ \E call \in BagToSet(thoughtCalls) : Committed(call) /\ call.session > 0
        \/ ConfirmDiscard) =>
          /\ ~recordMode' /\ ~confirmingDiscard'
          /\ sequenceNum' = 0 /\ editCount' = 0
          /\ lastInputValueRef' = <<>>
          /\ input' = <<>>]_vars

\* C18: computeEditOperation(previous, next, cursor) returns none exactly when
\* previous = next, whatever the cursor: the final 'both empty' branch is not
\* reached for different texts.
C18_NoneIffEqual == (computed = Null) <=> (prevText = newText)

\* different texts whose common prefix and suffix cover the whole shorter text
W18_ShorterTextCovered ==
    /\ prevText # newText
    /\ computed # Null
    /\ Min(Len(prevText), Len(newText)) > 0
    /\ PrefixLen(prevText, newText)
          + SuffixLen(prevText, newText, PrefixLen(prevText, newText))
          = Min(Len(prevText), Len(newText))

\* the length of the longest common prefix of a and b
CommonPrefix(a, b) ==
    Max({k \in 0..Min(Len(a), Len(b)) : SubSeq(a, 1, k) = SubSeq(b, 1, k)})

\* the length of the longest common suffix of what a prefix of length p leaves
CommonSuffix(a, b, p) ==
    Max({k \in 0..(Min(Len(a), Len(b)) - p) :
            SubSeq(a, Len(a) - k + 1, Len(a)) = SubSeq(b, Len(b) - k + 1, Len(b))})

\* C19: computeEditOperation agrees with the reference definition.  With p the
\* longest common prefix, s the longest common suffix of the remainders,
\* deleted = previous[p : len(previous) - s] and inserted = next[p : len(next) - s]:
\* replace iff both are non-empty, insert iff only inserted is, delete iff only
\* deleted is; position = p; content is inserted for insert and replace, deleted
\* for delete.
C19_AgreesWithReference ==
    LET p == CommonPrefix(prevText, newText)
        s == CommonSuffix(prevText, newText, p)
        deleted == SubSeq(prevText, p + 1, Len(prevText) - s)
        inserted == SubSeq(newText, p + 1, Len(newText) - s)
    IN  /\ (deleted # <<>> /\ inserted # <<>>) <=>
              (computed # Null /\ computed.type = "replace")
        /\ (deleted = <<>> /\ inserted # <<>>) <=>
              (computed # Null /\ computed.type = "insert")
        /\ (deleted # <<>> /\ inserted = <<>>) <=>
              (computed # Null /\ computed.type = "delete")
        /\ computed # Null =>
              /\ computed.position = p
              /\ computed.content = IF computed.type = "delete" THEN deleted
                                    ELSE inserted

\* a replace in the middle of the text: common prefix and common suffix non-empty
W19_ReplaceInTheMiddle ==
    /\ computed # Null
    /\ computed.type = "replace"
    /\ computed.position > 0
    /\ SuffixLen(prevText, newText, computed.position) > 0

\* the contents of a sequence of frames
Contents(frames) == [i \in DOMAIN frames |-> frames[i].content]

\* C20: scenario 1.  "hi" -> "hi!" gives insert@2 "!" and "hi!" -> "hi there!"
\* gives insert@3 " there"; the frames reconstructed from the empty text for these
\* two operations are "hi!", "hi there!".
C20_ScenarioOne ==
    /\ (prevText = Hi /\ newText = HiBang) =>
          computed = [type |-> "insert", position |-> 2, content |-> <<"!">>]
    /\ (prevText = HiBang /\ newText = HiThereBang) =>
          /\ computed = [type |-> "insert", position |-> 3,
                         content |-> <<" ", "t", "h", "e", "r", "e">>]
          /\ Contents(GenerateFrames(
                 <<StoredAs(ComputeEditOperation(Hi, HiBang, 3), 1),
                   StoredAs(computed, 2)>>)) = <<HiBang, HiThereBang>>

\* C20 as amended: "hi" -> "hi!" gives insert@2 "!" and "hi!" -> "hi there!"
\* gives insert@2 " there"; applying the two operations in order to the text
\* "hi" gives the frames "hi!", "hi there!".
C20_ScenarioOneFromHi ==
    /\ (prevText = Hi /\ newText = HiBang) =>
          computed = [type |-> "insert", position |-> 2, content |-> <<"!">>]
    /\ (prevText = HiBang /\ newText = HiThereBang) =>
          /\ computed = [type |-> "insert", position |-> 2,
                         content |-> <<" ", "t", "h", "e", "r", "e">>]
          /\ Contents(FramesFrom(Hi,
                 <<StoredAs(ComputeEditOperation(Hi, HiBang, 3), 1),
                   StoredAs(computed, 2)>>, 0)) = <<HiBang, HiThereBang>>

\* the second step of the scenario was diffed
W20_SecondStepDiffed ==
    /\ prevText = HiBang
    /\ newText = HiThereBang
    /\ computed # Null

\* C21: the common suffix never overlaps the common prefix.  For every call,
\* prefixLen + suffixLen <= min(len(previous), len(next)); hence
\* 0 <= position <= len(previous), position + len(deleted) <= len(previous) and
\* position + len(inserted) <= len(next).
C21_SuffixNeverOverlapsPrefix ==
    LET prefixLen == PrefixLen(prevText, newText)
        suffixLen == SuffixLen(prevText, newText, prefixLen)
        deleted == Len(prevText) - suffixLen - prefixLen
        inserted == Len(newText) - suffixLen - prefixLen
    IN  /\ prefixLen + suffixLen <= Min(Len(prevText), Len(newText))
        /\ deleted >= 0 /\ inserted >= 0
        /\ computed # Null =>
              /\ 0 <= computed.position /\ computed.position <= Len(prevText)
              /\ computed.position + deleted <= Len(prevText)
              /\ computed.position + inserted <= Len(newText)
              /\ Len(computed.content)
                    = IF computed.type = "delete" THEN deleted ELSE inserted

\* a change between a non-empty common prefix and a non-empty common suffix that
\* together cover the whole shorter text
W21_PrefixAndSuffixMeet ==
    /\ prevText # newText
    /\ PrefixLen(prevText, newText) > 0
    /\ SuffixLen(prevText, newText, PrefixLen(prevText, newText)) > 0
    /\ PrefixLen(prevText, newText)
          + SuffixLen(prevText, newText, PrefixLen(prevText, newText))
          = Min(Len(prevText), Len(newText))

\* the step is a change of the text box handled by handleInputChange
TextChanged == input' # input /\ thoughtCalls' = thoughtCalls

\* the createEditOperation calls a step issues, copies counted
AppendsIssued ==
    LET appends == {m \in Sent : m.kind = "createEditOperation"}
    IN  IF appends = {} THEN 0
        ELSE IF \E m \in appends :
                   /\ appends = {m}
                   /\ CopiesIn(m, net') = CopiesIn(m, net) + 1
             THEN 1 ELSE 2

\* C22: each text change produces zero or one append.  A step of
\* handleInputChange issues exactly one createEditOperation when record mode is on
\* and the new text differs from the text it is diffed against, and none
\* otherwise; no other step issues one.
C22_ZeroOrOneAppend ==
    [][/\ TextChanged =>
             AppendsIssued = IF recordMode /\ input' # lastInputValueRef
                             THEN 1 ELSE 0
       /\ ~TextChanged => AppendsIssued = 0]_vars

\* in record mode one change was journaled and its append is on its way
W22_OneAppendIssued ==
    /\ recordMode
    /\ sessionOps = 1
    /\ input = lastInputValueRef
    /\ Cardinality(InFlight("createEditOperation")) = 1

\* C23: discard.  A deleteEditOperations call is issued only by a step taken in
\* the discard confirmation, for the panel's session id, and that step leaves the
\* recorder Idle (record mode off, sequence counter 0, not confirming); the
\* confirmation is entered only by a step that changes nothing else, taken in
\* record mode with at least one operation counted.
C23_DiscardOnlyOnConfirmation ==
    [][/\ \A m \in Sent : m.kind = "deleteEditOperations" =>
             /\ confirmingDiscard
             /\ m.thought_id = currentSessionId
             /\ Cardinality(Sent) = 1
             /\ ~recordMode' /\ sequenceNum' = 0 /\ ~confirmingDiscard'
       /\ (~confirmingDiscard /\ confirmingDiscard') =>
             /\ recordMode /\ editCount > 0 /\ sequenceNum > 0
             /\ UNCHANGED <<input, lastInputValueRef, recordMode, editCount,
                            currentSessionId, sequenceNum, toggleCalls, thoughtCalls,
                            net, thoughts, store>>]_vars

\* a discard was confirmed: the call is on its way and the recorder is Idle
W23_DiscardIssued ==
    /\ InFlight("deleteEditOperations") # {}
    /\ ~recordMode /\ sequenceNum = 0 /\ ~confirmingDiscard

\* C24: identities are told apart by sign.  Every createEditOperation call
\* carries a negative thought_id, every updateEditOperationsThoughtId call a
\* negative old id and a positive new id that is the id of a note, and every
\* stored operation is under a negative id or under the id of a note it was
\* relabelled to.
C24_IdentitiesBySign ==
    /\ currentSessionId < 0
    /\ \A t \in thoughts : t.id > 0
    /\ \A m \in InFlight("createEditOperation") : m.thought_id < 0
    /\ \A m \in InFlight("updateEditOperationsThoughtId") :
          /\ m.old_thought_id < 0
          /\ m.new_thought_id > 0
          /\ m.new_thought_id \in {t.id : t \in thoughts}
    /\ \A r \in editOperations :
          \/ r.thought_id < 0
          \/ \E x \in reassignedSessions : x.thought_id = r.thought_id

\* the log holds operations of a committed note and of a provisional session
W24_BothSignsStored ==
    \E r, q \in editOperations : r.thought_id > 0 /\ q.thought_id < 0

\* C25: playback intents are pure transitions on (isPlaying, currentFrameIndex,
\* speed) with no effect on the operation log.  PLAY, PAUSE and TOGGLE change
\* only isPlaying; CHANGE_SPEED changes only speed; SEEK sets currentFrameIndex
\* to its target and isPlaying to false; RESTART sets currentFrameIndex to 0 and
\* isPlaying to false; and a dispatch leaves the reducer's result (paused by the
\* playback effect at the last frame) in the window and starts no append,
\* reassignment or discard.
C25_IntentsArePure ==
    [][\A action \in Intents(MaxFrames) :
          LET result == PlaybackReducer(playbackState, action)
              paused == [result EXCEPT !.isPlaying = FALSE]
          IN  /\ action.type = "PLAY" =>
                    result = [playbackState EXCEPT !.isPlaying = TRUE]
              /\ action.type = "PAUSE" =>
                    result = [playbackState EXCEPT !.isPlaying = FALSE]
              /\ action.type = "TOGGLE" =>
                    result = [playbackState EXCEPT
                                 !.isPlaying = ~playbackState.isPlaying]
              /\ action.type = "CHANGE_SPEED" =>
                    result = [playbackState EXCEPT !.speed = action.speed]
              /\ action.type = "SEEK" =>
                    result = [playbackState EXCEPT
                                 !.currentFrameIndex = action.frameIndex,
                                 !.isPlaying = FALSE]
              /\ action.type = "RESTART" =>
                    result = [playbackState EXCEPT !.currentFrameIndex = 0,
                                                   !.isPlaying = FALSE]
              /\ Dispatch(action) =>
                    /\ playbackState' \in {result, paused}
                    /\ UNCHANGED <<net, editOperations, thoughts>>]_vars

\* paused away from the first frame at another speed than the initial one:
\* frames were shown, a speed was chosen and the playback was stopped
W25_SoughtAndSpedUp ==
    /\ ControlsShown
    /\ ~playbackState.isPlaying
    /\ playbackState.currentFrameIndex > 0
    /\ playbackState.speed # NormalSpeed

\* C26: the playback timer is cancelled on pause, seek and unmount.  A timeout
\* that will dispatch NEXT_FRAME is pending only while the window is mounted
\* and playing, and it is the one of the latest run of the playback effect:
\* once PAUSE, SEEK or RESTART was applied or the window closed, nothing
\* scheduled earlier is left to advance currentFrameIndex.
C26_TimerCancelled ==
    /\ strayTimeouts = 0
    /\ timeoutArmed => (playbackState.isPlaying /\ replayWindow = "mounted")

\* the window was closed in the middle of a playback that had advanced
W26_ClosedWhilePlaying ==
    /\ replayWindow = "closed"
    /\ playbackState.isPlaying
    /\ playbackState.currentFrameIndex > 0

RawDelta(frames, i) == frames[i + 1].timestamp_ms - frames[i].timestamp_ms

Quiescent ==
    /\ net = EmptyBag
    /\ thoughtCalls = EmptyBag
    /\ toggleCalls = EmptyBag

\* C29: no orphaned journal.  Whenever record mode is off again after a
\* recording session and every call has completed (none fails in this
\* specification), the log holds no operation under the session's
\* provisional id: each one was relabelled to a note's id or deleted.
C29_NoOrphanedJournal ==
    (~recordMode /\ Quiescent /\ sessionIds # <<>>)
        => \A r \in editOperations : r.thought_id # sessionIds[r.session]

\* C30: session isolation at commit.  Once the reassignment of a committed
\* session was executed, the operations stored under the note's id are those
\* journaled in the session that produced the note and no others, and once
\* every call is answered all of them.
C30_SessionIsolationAtCommit ==
    \A x \in reassignedSessions :
        /\ \A r \in RowsOf(editOperations, x.thought_id) : r.session = x.session
        /\ Quiescent =>
              \A r \in editOperations :
                  r.session = x.session => r.thought_id = x.thought_id

\* C31: diff base consistency.  Every text change handled in record mode is
\* diffed against the text the box held just before the change.
C31_DiffBaseConsistency ==
    [][(recordMode /\ TextChanged) => lastInputValueRef = input]_vars

\* C32: a failed createThought leaves the recording session intact.  The step
\* that runs onError changes neither record mode, the sequence counter, the
\* edit count, the confirming flag nor the provisional id, sends no
\* reassignment and no discard, and leaves the stored journal as it is.
C32_FailedSubmitKeepsSession ==
    [][\A call \in BagToSet(thoughtCalls) :
          CreateThoughtError(call) =>
              /\ UNCHANGED <<recordMode, sequenceNum, editCount, confirmingDiscard,
                             currentSessionId, editOperations>>
              /\ Sent = {}]_vars

\* a createThought failed in a recording session with a stored journal: the
\* session goes on under its provisional id
W32_SessionAfterFailedSubmit ==
    /\ input = ErrorText
    /\ recordMode
    /\ editCount > 0
    /\ thoughtCalls = EmptyBag
    /\ \E r \in editOperations :
          r.thought_id = currentSessionId /\ r.session = CurrentSession

\* C33: while the confirmation is shown no append is issued.
C33_NoAppendWhileConfirming ==
    [][confirmingDiscard => AppendsIssued = 0]_vars

\* C34: the confirmation is shown only in record mode with edits, and the edit
\* count always equals the sequence counter.
C34_ConfirmingImpliesRecording ==
    /\ confirmingDiscard => (recordMode /\ editCount > 0)
    /\ editCount = sequenceNum

\* the index of the last frame of the history on show
LastFrame == Len(Frames(operations)) - 1

\* C35: playback index bounds.  While a non-empty frame list is on show,
\* whatever the user and the timer did, 0 <= currentFrameIndex <=
\* frames.length - 1.
C35_IndexWithinFrames ==
    View = "frame" => playbackState.currentFrameIndex \in 0..LastFrame

\* the timer is playing through the middle of a history
W35_PlayingInTheMiddle ==
    /\ View = "frame"
    /\ playbackState.isPlaying
    /\ timeoutArmed
    /\ playbackState.currentFrameIndex > 0
    /\ playbackState.currentFrameIndex < LastFrame

\* C36: playback terminates.  A timeout advances currentFrameIndex by one
\* frame; a playback in an open window ends, and by itself it ends only at the
\* last frame; once paused nothing but the user starts it again; and starting
\* playback on the last frame leaves it paused on that frame.
C36_PlaybackTerminates ==
    /\ [][(TimeoutFires /\ playbackState' # playbackState) =>
             /\ playbackState.isPlaying
             /\ playbackState'.currentFrameIndex =
                   playbackState.currentFrameIndex + 1
             /\ playbackState'.isPlaying =
                   (playbackState'.currentFrameIndex < LastFrame)]_vars
    /\ [][(~playbackState.isPlaying /\ playbackState'.isPlaying) =>
             TogglePlayback]_vars
    /\ [][(TogglePlayback /\ playbackState.currentFrameIndex >= LastFrame) =>
             playbackState' = [playbackState EXCEPT !.isPlaying = FALSE]]_vars
    /\ (playbackState.isPlaying /\ replayWindow = "mounted")
          ~> (~playbackState.isPlaying \/ replayWindow # "mounted")

\* a playback has come to its end on the last frame of a history of several
W36_StoppedAtTheEnd ==
    /\ View = "frame"
    /\ replayWindow = "mounted"
    /\ ~playbackState.isPlaying
    /\ LastFrame > 0
    /\ playbackState.currentFrameIndex = LastFrame

\* ---- Chat assistant: the loop of chat() ----
AssistantTurns == Cardinality({k \in DOMAIN messages : messages[k].role = "assistant"})

\* one turn of `while (true)`: the stream ends with these blocks and this stop
\* reason; tool inputs are parsed, the assistant message is pushed, and on
\* tool_use the queries run and their results are pushed as a user message
ChatTurn(kinds, stopReason) ==
    /\ chatPc = "streaming"
    /\ AssistantTurns < MaxTurns
    /\ toolUsed' = toolUsed + Len(kinds)
    /\ LET finalContent == FinalContent(ContentBlocks(kinds, toolUsed))
           assistant == [role |-> "assistant", content |-> finalContent,
                         stop |-> stopReason]
           user == [role |-> "user", content |-> ToolResults(finalContent),
                    stop |-> "none"]
       IN  IF ParseThrows(kinds)
           THEN /\ chatPc' = "thrown"
                /\ UNCHANGED messages
           ELSE IF stopReason = "tool_use"
                THEN IF \E i \in DOMAIN finalContent :
                           /\ IsToolUse(finalContent[i])
                           /\ ExecuteQueryThrows(finalContent[i])
                     THEN /\ messages' = Append(messages, assistant)
                          /\ chatPc' = "thrown"
                     ELSE /\ messages' = messages \o <<assistant, user>>
                          /\ UNCHANGED chatPc
                ELSE /\ messages' = Append(messages, assistant)
                     /\ chatPc' = "returned"
    /\ UNCHANGED <<ui, toggleCalls, thoughtCalls, net, thoughts, store, history,
                   counters, diff, replay, paging, client>>

\* client.messages.stream throws
StreamThrows ==
    /\ chatPc = "streaming"
    /\ chatPc' = "thrown"
    /\ UNCHANGED <<messages, toolUsed>>
    /\ UNCHANGED <<ui, toggleCalls, thoughtCalls, net, thoughts, store, history,
                   counters, diff, replay, paging, client>>

ChatNext ==
    \/ \E kinds \in Streams : \E stopReason \in StopReasons :
          ChatTurn(kinds, stopReason)
    \/ StreamThrows

ChatSpec == Init /\ [][ChatNext]_vars

\* the ids listed so far, page after page
RECURSIVE Flatten(_)
Flatten(list) ==
    IF list = <<>> THEN <<>> ELSE Head(list).items \o Flatten(Tail(list))

\* C37: cursor pagination is complete and duplicate-free.  The pages fetched
\* by following nextCursor list ids in strictly descending order, at most
\* `limit` a page, all of thoughts that matched at the first fetch; a page
\* has a nextCursor exactly when a matching thought with a smaller id than
\* its last one remains; and when the last page has none, every thought that
\* matched at the first fetch is listed -- also when thoughts were inserted
\* between the fetches.
C37_PaginationComplete ==
    pages # <<>> =>
        LET listed == Flatten(pages)
        IN  /\ \A i, j \in DOMAIN listed : i < j => listed[i] > listed[j]
            /\ Range(listed) \subseteq listedAtFirst
            /\ \A k \in DOMAIN pages :
                  LET page == pages[k]
                      last == page.items[Len(page.items)]
                  IN  /\ Len(page.items) <= listQuery.limit
                      /\ page.items = <<>> => page.nextCursor = NoCursor
                      /\ page.items # <<>> =>
                            /\ (page.nextCursor # NoCursor) <=>
                                  \E t \in thoughts :
                                      Like(t.content, listQuery.search) /\ t.id < last
                            /\ page.nextCursor \in {NoCursor, last}
            /\ NextPageParam = NoCursor => Range(listed) = listedAtFirst

\* a listing of several pages is complete, and a matching thought was inserted
\* after its first fetch
W37_ListedWhileInserting ==
    /\ Len(pages) > 1
    /\ NextPageParam = NoCursor
    /\ \E t \in thoughts :
          Like(t.content, listQuery.search) /\ t.id \notin listedAtFirst

\* the clients handed to the callers so far
ClientsReturned == {inits[c].client : c \in {d \in Inits : inits[d].pc = "resolved"}}

\* C38: at most one tRPC client is ever created; every caller of
\* initializeTrpcClient, overlapping or not, receives the same client; and
\* getTrpcClient gives null or that client.
C38_SingleClient ==
    /\ clientsCreated <= 1
    /\ Cardinality(ClientsReturned) <= 1
    /\ GetTrpcClient(cachedClient) \in {NoClient} \cup ClientsReturned

\* waitForServer of call c is over
WaitOver(c) == inits[c].wait \in {"returned", "thrown"}

C40_ToolProtocol ==
    /\ \A k \in DOMAIN messages :
          (messages[k].role = "assistant" /\ messages[k].stop = "tool_use") =>
              /\ k < Len(messages)
              /\ messages[k + 1].role = "user"
              /\ messages[k + 1].content = ToolResults(messages[k].content)
    /\ \A k \in 1..(Len(messages) - 1) : messages[k].role # messages[k + 1].role
    /\ chatPc = "returned" <=>
          /\ messages[Len(messages)].role = "assistant"
          /\ messages[Len(messages)].stop # "tool_use"

====
